---------------------------- MODULE Spec2Model ----------------------------
(***************************************************************************)
(* A model of chk, the synchronous schema-based value checker.             *)
(*                                                                         *)
(* JavaScript values are tagged records.  Objects and arrays live in a     *)
(* heap and are referred to by address, so that two places holding the     *)
(* same object (a schema default handed to the value without a copy, an    *)
(* options record passed to a callee) are visibly the same object.  The    *)
(* engine's functions are operators that take the machine state (heap,     *)
(* validator call log, node visit log) and return the new machine state    *)
(* together with the JavaScript return value or the exception thrown.      *)
(***************************************************************************)
EXTENDS Integers, Sequences, FiniteSets, TLC

VARIABLES
  pc,        \* "ready" | "checked" | "rechecked" | "twinned"
  args,      \* the caller's arguments: value, schema, options (heap values)
  before,    \* the caller's arguments as written, before any call
  mach,      \* the machine after the first call (before it, as loaded)
  result,    \* what the first call of chk returned (or threw)
  mach2,     \* the machine after the second call
  result2    \* what the second call of chk returned (or threw)

vars == <<pc, args, before, mach, result, mach2, result2>>

-----------------------------------------------------------------------------
(* JavaScript values.  The tag t is the classifier's tag for immediates.   *)

Undef == [t |-> "undefined"]
Null == [t |-> "null"]
Bool(b) == [t |-> "boolean", b |-> b]
Num(n) == [t |-> "number", n |-> n, nan |-> FALSE]
NaN == [t |-> "number", n |-> 0, nan |-> TRUE]
Str(s) == [t |-> "string", s |-> s]
\* a + b + ...: a string built by concatenation, kept as its parts.
Cat(parts) == [t |-> "string", cat |-> parts]
Fn(f) == [t |-> "function", f |-> f]
Ref(a) == [t |-> "ref", a |-> a]
\* An Error object.  code and message are values; info is the map fail()
\* attaches.
Err(code, message) ==
  [t |-> "error", code |-> code, message |-> message,
   hasInfo |-> FALSE, info |-> [k \in {} |-> Undef]]
\* An exception leaving a function (not a returned error value).
Exc(what) == [t |-> "exception", what |-> what]

IsRef(v) == v.t = "ref"
IsExc(v) == v.t = "exception"

\* Heap cells.
ObjCell(ks, m) == [t |-> "object", ks |-> ks, m |-> m]
ArrCell(es) == [t |-> "array", es |-> es]
EmptyMap == [k \in {} |-> Undef]

\* tipe(v): the classifier's tag.
tipe(h, v) == IF IsRef(v) THEN h[v.a].t ELSE v.t

isObject(h, v) == tipe(h, v) = "object"
isError(v) == v.t = "error"
isUndefined(v) == v.t = "undefined"
isDefined(v) == ~isUndefined(v)
isNull(v) == v.t = "null"
isString(v) == v.t = "string"
isFunction(v) == v.t = "function"

\* JavaScript truthiness, as in `if (x)`, `!x`, `a || b`.
Truthy(v) ==
  CASE v.t = "undefined" -> FALSE
    [] v.t = "null" -> FALSE
    [] v.t = "boolean" -> v.b
    [] v.t = "number" -> ~v.nan /\ v.n # 0
    [] v.t = "string" -> "cat" \in DOMAIN v \/ v.s # ""
    [] OTHER -> TRUE

\* a || b
OrElse(a, b) == IF Truthy(a) THEN a ELSE b

\* parseFloat and parseInt on the string literals the inputs use.  TLA+
\* strings have no characters to scan, so the two are given by their
\* results on each literal; every other literal has no numeric prefix.
parseFloat(s) ==
  CASE s = "0" -> Num(0)
    [] s = "1" -> Num(1)
    [] s = "5" -> Num(5)
    [] s = "1e2" -> Num(100)
    [] OTHER -> NaN

parseInt(s) ==
  CASE s = "0" -> Num(0)
    [] s = "1" -> Num(1)
    [] s = "5" -> Num(5)
    [] s = "1e2" -> Num(1)
    [] OTHER -> NaN

\* Math.abs(a) > Math.abs(b); false when either is NaN.
AbsGreater(a, b) ==
  /\ ~a.nan /\ ~b.nan
  /\ (IF a.n < 0 THEN -a.n ELSE a.n) > (IF b.n < 0 THEN -b.n ELSE b.n)

\* tipe.truthy(v): the classifier's truthiness rule for strings is
\* 'true' or 'yes' in any case, or a string whose parseInt is positive.
truthy(v) ==
  IF isString(v)
  THEN v.s \in {"true", "yes"} \/ (~parseInt(v.s).nan /\ parseInt(v.s).n > 0)
  ELSE IF v.t = "number" THEN ~v.nan /\ v.n > 0
  ELSE Truthy(v)

\* strEnum.split('|') on the enum literals the inputs use.
split(s) ==
  CASE s = "a|b" -> <<"a", "b">>
    [] s = "number|string" -> <<"number", "string">>
    [] s = "object|array" -> <<"object", "array">>
    [] OTHER -> <<s>>

\* Pipe-delimited enum: true if str equals (===) any member of strEnum.
match(str, strEnum) ==
  IF ~isString(strEnum) THEN FALSE
  ELSE \E i \in 1..Len(split(strEnum.s)) : str = Str(split(strEnum.s)[i])

-----------------------------------------------------------------------------
(* Property access on heap values.                                         *)

\* v[k] for a value that is not null or undefined.  Keys of the inputs are
\* never names of Object.prototype or indices, so primitives, functions
\* and arrays have none of them.
Get(h, v, k) ==
  IF IsRef(v)
  THEN IF h[v.a].t = "object" /\ k \in DOMAIN h[v.a].m THEN h[v.a].m[k] ELSE Undef
  ELSE IF isError(v)
  THEN (CASE k = "code" -> v.code
          [] k = "info" -> IF v.hasInfo THEN Str("[info]") ELSE Undef
          [] OTHER -> Undef)
  ELSE Undef

\* The keys `for (key in v)` visits, in order.
Keys(h, v) == IF IsRef(v) /\ h[v.a].t = "object" THEN h[v.a].ks ELSE <<>>

\* o[k] = x on an object cell: a new key is appended to the key order.
SetCell(c, k, x) ==
  IF k \in DOMAIN c.m
  THEN [c EXCEPT !.m = [c.m EXCEPT ![k] = x]]
  ELSE [c EXCEPT !.ks = Append(c.ks, k), !.m = (k :> x) @@ c.m]

Set(h, o, k, x) == [h EXCEPT ![o.a] = SetCell(h[o.a], k, x)]

RECURSIVE Without(_, _)
Without(ks, k) ==
  IF ks = <<>> THEN <<>>
  ELSE IF Head(ks) = k THEN Without(Tail(ks), k)
  ELSE <<Head(ks)>> \o Without(Tail(ks), k)

\* The object cell with the keys ks of cell c, in that order.
RECURSIVE Restrict(_, _, _)
Restrict(c, ks, done) ==
  IF ks = <<>> THEN done
  ELSE Restrict(c, Tail(ks), SetCell(done, Head(ks), c.m[Head(ks)]))

\* delete o[k]
Delete(h, o, k) ==
  IF IsRef(o) /\ h[o.a].t = "object" /\ k \in DOMAIN h[o.a].m
  THEN [h EXCEPT ![o.a] =
          Restrict(h[o.a], Without(h[o.a].ks, k), ObjCell(<<>>, EmptyMap))]
  ELSE h

\* A new cell at the end of the heap.
NewAddr(h) == Len(h) + 1
Alloc(h, c) == Append(h, c)


-----------------------------------------------------------------------------
(* The machine state threaded through the engine, and a function's outcome *)

\* h: the heap; calls: the validator invocations so far; visits: the nodes
\* _chk has entered so far, with the options in force at each.
Machine(h, calls, visits) == [h |-> h, calls |-> calls, visits |-> visits]

\* What a function leaves behind: the machine state and the value it
\* returned (or the exception that left it).
Ret(m, r) == [m |-> m, r |-> r]

WithHeap(m, h) == [m EXCEPT !.h = h]

-----------------------------------------------------------------------------
(* override: like extend, but an option is only overridden by a value of   *)
(* the type it already has.                                                *)

\* The second loop of override: for (var key in obj2) { ... }
RECURSIVE overrideKeys(_, _, _, _, _)
overrideKeys(h, obj1, obj2, ks, newObj) ==
  IF ks = <<>> THEN newObj
  ELSE LET key == Head(ks)
           adopt == \/ isUndefined(Get(h, obj1, key))
                    \/ tipe(h, Get(h, obj1, key)) = tipe(h, Get(h, obj2, key))
       IN overrideKeys(h, obj1, obj2, Tail(ks),
                       IF adopt THEN SetCell(newObj, key, Get(h, obj2, key))
                       ELSE newObj)

\* A mutant of override: plain extend, every key of obj2 wins.
overrideExtend(m, obj1, obj2) ==
  IF ~(isObject(m.h, obj1) /\ isObject(m.h, obj2)) THEN Ret(m, obj1)
  ELSE LET RECURSIVE ext(_, _)
           ext(ks, c) == IF ks = <<>> THEN c
                         ELSE ext(Tail(ks), SetCell(c, Head(ks), Get(m.h, obj2, Head(ks))))
           newObj == ext(Keys(m.h, obj2), m.h[obj1.a])
       IN Ret(WithHeap(m, Alloc(m.h, newObj)), Ref(NewAddr(m.h)))

override(m, obj1, obj2) ==
  IF ~(isObject(m.h, obj1) /\ isObject(m.h, obj2)) THEN Ret(m, obj1)
  ELSE LET newObj == overrideKeys(m.h, obj1, obj2, Keys(m.h, obj2), m.h[obj1.a])
       IN Ret(WithHeap(m, Alloc(m.h, newObj)), Ref(NewAddr(m.h)))

-----------------------------------------------------------------------------
(* clone: JSON.parse(JSON.stringify(obj)) for objects, obj itself otherwise *)

\* What JSON.stringify leaves out of an object (and writes as null in an
\* array): undefined and functions.
JsonOmitted(v) == v.t \in {"undefined", "function"}

\* The copy JSON.parse(JSON.stringify(v)) builds: new cells for every
\* object and array inside v.  The inputs hold no cycles, so stringify
\* does not throw.
RECURSIVE JsonCopy(_, _)
RECURSIVE JsonCopyKeys(_, _, _, _)
RECURSIVE JsonCopyElems(_, _, _)
JsonCopy(h, v) ==
  IF ~IsRef(v)
  THEN [h |-> h, r |-> IF v.t = "number" /\ v.nan THEN Null ELSE v]
  ELSE IF h[v.a].t = "object"
  THEN LET c == JsonCopyKeys(h, v, h[v.a].ks, ObjCell(<<>>, EmptyMap))
       IN [h |-> Alloc(c.h, c.r), r |-> Ref(NewAddr(c.h))]
  ELSE LET c == JsonCopyElems(h, h[v.a].es, <<>>)
       IN [h |-> Alloc(c.h, ArrCell(c.r)), r |-> Ref(NewAddr(c.h))]

JsonCopyKeys(h, v, ks, cell) ==
  IF ks = <<>> THEN [h |-> h, r |-> cell]
  ELSE IF JsonOmitted(h[v.a].m[Head(ks)])
  THEN JsonCopyKeys(h, v, Tail(ks), cell)
  ELSE LET c == JsonCopy(h, h[v.a].m[Head(ks)])
       IN JsonCopyKeys(c.h, v, Tail(ks), SetCell(cell, Head(ks), c.r))

JsonCopyElems(h, es, done) ==
  IF es = <<>> THEN [h |-> h, r |-> done]
  ELSE IF JsonOmitted(Head(es))
  THEN JsonCopyElems(h, Tail(es), Append(done, Null))
  ELSE LET c == JsonCopy(h, Head(es))
       IN JsonCopyElems(c.h, Tail(es), Append(done, c.r))

clone(m, obj) ==
  IF ~isObject(m.h, obj) THEN Ret(m, obj)
  ELSE LET c == JsonCopy(m.h, obj) IN Ret(WithHeap(m, c.h), c.r)

-----------------------------------------------------------------------------
(* fail: the error helper                                                  *)

codeMap(code) ==
  CASE code = Str("missingParam") -> Str("Missing Required Parameter")
    [] code = Str("badParam") -> Str("Unrecognized Parameter")
    [] code = Str("badType") -> Str("Invalid Type")
    [] code = Str("badValue") -> Str("Invalid Value")
    [] code = Str("badSchema") -> Str("Invalid Schema")
    [] OTHER -> Undef

\* The keys of options whose value is truthy: "only display set options".
SetOptions(h, options) ==
  {k \in DOMAIN h[options.a].m : Truthy(h[options.a].m[k])}

\* fail(code, msg, args) with args = <<value, schema, options>>, the
\* caller's arguments object.  It deletes options.rootValue in place.
fail(m, code, msg, as) ==
  LET options == as[3]
      isObj == IsRef(options) /\ m.h[options.a].t = "object"
      h1 == IF Truthy(options) THEN Delete(m.h, options, "rootValue") ELSE m.h
      shown == IF Truthy(options) /\ isObj THEN SetOptions(h1, options) ELSE {}
      info == [k \in {"value", "schema"} \cup shown |->
                 IF k \in shown THEN h1[options.a].m[k]
                 ELSE IF k = "value" THEN as[1] ELSE as[2]]
      err == IF isError(msg) THEN msg
             ELSE Err(Undef, Cat(<<codeMap(code), Str(": "), msg>>))
  IN Ret(WithHeap(m, h1),
         [err EXCEPT !.code = OrElse(err.code, code),
                     !.hasInfo = TRUE, !.info = info])

-----------------------------------------------------------------------------
(* log: the debugging helper, called with _chk's arguments object          *)

\* It deletes rootSchema and rootValue from the options it was handed
\* (_chk's parentOptions) before printing.
log(m, as) ==
  IF isObject(m.h, as[3])
  THEN WithHeap(m, Delete(Delete(m.h, as[3], "rootSchema"), as[3], "rootValue"))
  ELSE m

-----------------------------------------------------------------------------
(* coerceType: strings to the declared number or boolean                   *)

coerceNumber(value) ==
  LET f == parseFloat(value.s)
      i == parseInt(value.s)
      v1 == IF AbsGreater(f, i) THEN f ELSE IF Truthy(i) THEN i ELSE value
  IN IF v1 = Str("0") THEN Num(0) ELSE v1

coerceType(h, value, schema, options) ==
  IF Truthy(Get(h, options, "doNotCoerce")) THEN value
  ELSE IF ~isString(value) THEN value
  ELSE IF Get(h, schema, "type") = Str("number") THEN coerceNumber(value)
  ELSE IF Get(h, schema, "type") = Str("boolean") THEN Bool(truthy(value))
  ELSE value


-----------------------------------------------------------------------------
(* Validator functions: the behaviours a schema author's function may have *)

\* What calling validator f on value does: it returns v, or throws v.
Returns(v) == [thrown |-> FALSE, v |-> v]
Throws(v) == [thrown |-> TRUE, v |-> v]

ValidatorOutcome(f, value) ==
  CASE f = "retNull" -> Returns(Null)
    [] f = "retString" -> Returns(Str("bad"))
    [] f = "retError" -> Returns(Err(Undef, Str("invalid")))
    [] f = "retCodedError" -> Returns(Err(Str("tooBig"), Str("too big")))
    [] f = "isOne" -> Returns(IF value = Num(1) THEN Null ELSE Str("not one"))
    [] f = "throwError" -> Throws(Err(Undef, Str("boom")))
    [] f = "throwString" -> Throws(Str("boom"))
    [] f = "throwNumber" -> Throws(Num(0))
    [] f = "throwNull" -> Throws(Null)
    [] f = "throwUndefined" -> Throws(Undef)

\* callValidator: err = fn.call(options.rootValue, value, options) in a
\* try block.  The catch block writes schemaErr.message and schemaErr.code:
\* on a thrown Error that tags it badSchema; on a thrown string or number the
\* writes are dropped (the module is not in strict mode) and the primitive
\* itself is returned; on a thrown null or undefined reading
\* schemaErr.message throws a TypeError out of the catch block.
callValidator(m, fn, value, options) ==
  LET call == [f |-> fn.f, value |-> value, options |-> options,
               this |-> Get(m.h, options, "rootValue"),
               key |-> Get(m.h, options, "key")]
      m1 == [m EXCEPT !.calls = Append(@, call)]
      out == ValidatorOutcome(fn.f, value)
  IN IF out.thrown
     THEN IF out.v.t \in {"null", "undefined"} THEN Ret(m1, Exc("TypeError"))
          ELSE IF isError(out.v)
          THEN Ret(m1, [out.v EXCEPT
                          !.message = Cat(<<Str("Validator threw exception "), @>>),
                          !.code = Str("badSchema")])
          ELSE Ret(m1, out.v)
     ELSE IF Truthy(out.v)
     THEN LET err == IF isError(out.v) THEN out.v ELSE Err(Undef, out.v)
          IN Ret(m1, [err EXCEPT !.code = OrElse(@, Str("badValue"))])
     ELSE Ret(m1, Null)

-----------------------------------------------------------------------------
(* checkScalar                                                             *)

\* `if (err) return fail(err.code, err, arguments)` after a validator call
\* that left e; the value passes otherwise.  An exception goes on up.
afterValidator(e, value, as) ==
  IF IsExc(e.r) THEN e
  ELSE IF Truthy(e.r) THEN fail(e.m, Get(e.m.h, e.r, "code"), e.r, as)
  ELSE Ret(e.m, value)

\* switch (tipe(schema.value)) with sv = schema.value
checkRule(m, value, schema, options, sv) ==
  CASE tipe(m.h, sv) = "undefined" -> Ret(m, value)
    [] tipe(m.h, sv) = "function" ->
         afterValidator(callValidator(m, sv, value, options), value,
                        <<value, schema, options>>)
    [] tipe(m.h, sv) = "string" ->
         IF ~match(value, sv)
         THEN fail(m, Str("badValue"), Cat(<<Get(m.h, options, "key"), Str(": "), sv>>),
                   <<value, schema, options>>)
         ELSE Ret(m, value)
    [] tipe(m.h, sv) \in {"number", "boolean"} ->
         IF sv # value
         THEN fail(m, Str("badValue"), Cat(<<Get(m.h, options, "key"), Str(": "), sv>>),
                   <<value, schema, options>>)
         ELSE Ret(m, value)
    [] OTHER -> fail(m, Str("badType"), sv, <<value, schema, options>>)

checkScalar(m, value, schema, options) ==
  IF ~isObject(m.h, schema) \/ isNull(value) \/ isUndefined(value)
  THEN Ret(m, value)
  ELSE checkRule(m, value, schema, options, Get(m.h, schema, "value"))

-----------------------------------------------------------------------------
(* The recursive checker: _chk, checkobject, checkArray                    *)

RECURSIVE _chk(_, _, _, _)
RECURSIVE checkobject(_, _, _, _)
RECURSIVE checkArray(_, _, _, _)
RECURSIVE setDefaults(_, _, _, _, _)
RECURSIVE checkProperties(_, _, _, _, _, _)
RECURSIVE checkElements(_, _, _, _, _)

\* options.key = key
SetKey(m, options, key) == WithHeap(m, Set(m.h, options, "key", key))

\* `var fields`: schema fields may be nested inside schema.value.
fieldsOf(h, schema) ==
  IF Get(h, schema, "type") = Str("object") /\ isObject(h, Get(h, schema, "value"))
  THEN Get(h, schema, "value")
  ELSE schema

\* The strict loop over the keys ks of value: the first key with a falsy
\* fields[key], as a one-element sequence, or <<>>.
RECURSIVE unrecognized(_, _, _)
unrecognized(h, ks, fields) ==
  IF ks = <<>> THEN <<>>
  ELSE IF ~Truthy(Get(h, fields, Head(ks))) THEN <<Head(ks)>>
  ELSE unrecognized(h, Tail(ks), fields)

\* fields[key].p throws a TypeError when fields[key] is null or undefined.
NoProperties(v) == isNull(v) \/ isUndefined(v)

\* value[key] = clone(fields[key].default), c being what clone left, and
\* then the rest of the defaults loop.
setDefault(c, ks, value, fields, as) ==
  IF isError(c.r)
  THEN fail(WithHeap(c.m, Set(c.m.h, value, Head(ks), c.r)), Str("badSchema"),
            Str("Invalid default. Could not serialize as JSON."), as)
  ELSE setDefaults(WithHeap(c.m, Set(c.m.h, value, Head(ks), c.r)),
                   Tail(ks), value, fields, as)

\* The defaults loop over the keys ks of fields.  It returns undefined when
\* the loop ran to its end, and else the error or exception that ended it.
setDefaults(m, ks, value, fields, as) ==
  IF ks = <<>> THEN Ret(m, Undef)
  ELSE IF NoProperties(Get(m.h, fields, Head(ks))) THEN Ret(m, Exc("TypeError"))
  ELSE IF /\ isDefined(Get(m.h, Get(m.h, fields, Head(ks)), "default"))
          /\ isUndefined(Get(m.h, value, Head(ks)))
  THEN setDefault(clone(m, Get(m.h, Get(m.h, fields, Head(ks)), "default")),
                  ks, value, fields, as)
  ELSE setDefaults(m, Tail(ks), value, fields, as)

\* The required sweep over the keys ks of fields: the first key that is
\* required and missing as <<key>>, <<>> when there is none, and
\* <<key, key>> when fields[key] has no properties to read.
RECURSIVE missingRequired(_, _, _, _)
missingRequired(h, ks, value, fields) ==
  IF ks = <<>> THEN <<>>
  ELSE IF NoProperties(Get(h, fields, Head(ks))) THEN <<Head(ks), Head(ks)>>
  ELSE IF /\ Truthy(Get(h, Get(h, fields, Head(ks)), "required"))
          /\ (isUndefined(Get(h, value, Head(ks))) \/ isNull(Get(h, value, Head(ks))))
  THEN <<Head(ks)>>
  ELSE missingRequired(h, Tail(ks), value, fields)

\* value[key] = _chk(...), c being what _chk left; if that is an error it
\* is returned, and else the loop goes on.
checkProperty(c, ks, value, schema, fields, options) ==
  IF IsExc(c.r) THEN c
  ELSE IF isError(c.r) THEN Ret(WithHeap(c.m, Set(c.m.h, value, Head(ks), c.r)), c.r)
  ELSE checkProperties(WithHeap(c.m, Set(c.m.h, value, Head(ks), c.r)),
                       Tail(ks), value, schema, fields, options)

\* The last loop of checkobject, over the keys ks of value.
checkProperties(m, ks, value, schema, fields, options) ==
  IF ks = <<>> THEN Ret(m, value)
  ELSE IF isObject(m.h, Get(m.h, fields, Head(ks)))
  THEN checkProperty(_chk(SetKey(m, options, Str(Head(ks))),
                          Get(m.h, value, Head(ks)), Get(m.h, fields, Head(ks)), options),
                     ks, value, schema, fields, options)
  ELSE checkProperties(m, Tail(ks), value, schema, fields, options)

\* checkobject from the required sweep on, missing being what the sweep found.
checkRequired(m, value, schema, fields, options, missing) ==
  IF Len(missing) = 2 THEN Ret(m, Exc("TypeError"))
  ELSE IF Len(missing) = 1
  THEN fail(m, Str("missingParam"), Str(missing[1]), <<value, schema, options>>)
  ELSE checkProperties(m, Keys(m.h, value), value, schema, fields, options)

\* checkobject after the defaults loop, d being what the loop left.
checkDefaulted(d, value, schema, fields, options) ==
  IF isDefined(d.r) THEN d
  ELSE checkRequired(d.m, value, schema, fields, options,
                     IF ~Truthy(Get(d.m.h, options, "ignoreRequired"))
                     THEN missingRequired(d.m.h, Keys(d.m.h, fields), value, fields)
                     ELSE <<>>)

\* A mutant of checkStrict: the required sweep runs before the defaults loop.
checkStrictRequiredFirst(m, value, schema, fields, options, bad) ==
  LET missing == IF ~Truthy(Get(m.h, options, "ignoreRequired"))
                 THEN missingRequired(m.h, Keys(m.h, fields), value, fields)
                 ELSE <<>>
      d == IF ~Truthy(Get(m.h, options, "ignoreDefaults"))
           THEN setDefaults(m, Keys(m.h, fields), value, fields, <<value, schema, options>>)
           ELSE Ret(m, Undef)
  IN IF bad # <<>> THEN fail(m, Str("badParam"), Str(bad[1]), <<value, schema, options>>)
     ELSE IF Len(missing) = 2 THEN Ret(m, Exc("TypeError"))
     ELSE IF Len(missing) = 1
     THEN fail(m, Str("missingParam"), Str(missing[1]), <<value, schema, options>>)
     ELSE IF isDefined(d.r) THEN d
     ELSE checkProperties(d.m, Keys(d.m.h, value), value, schema, fields, options)

\* checkobject after the strict loop, bad being what the loop found.
checkStrict(m, value, schema, fields, options, bad) ==
  IF bad # <<>> THEN fail(m, Str("badParam"), Str(bad[1]), <<value, schema, options>>)
  ELSE checkDefaulted(IF ~Truthy(Get(m.h, options, "ignoreDefaults"))
                      THEN setDefaults(m, Keys(m.h, fields), value, fields,
                                       <<value, schema, options>>)
                      ELSE Ret(m, Undef),
                      value, schema, fields, options)

\* checkobject with `fields` resolved.
checkFields(m, value, schema, fields, options) ==
  checkStrict(m, value, schema, fields, options,
              IF Truthy(Get(m.h, options, "strict"))
              THEN unrecognized(m.h, Keys(m.h, value), fields)
              ELSE <<>>)

checkobject(m, value, schema, options) ==
  IF ~isObject(m.h, schema) THEN Ret(m, value)
  ELSE checkFields(m, value, schema, fieldsOf(m.h, schema), options)

\* `if (tipe.error(elm)) return elm`, elm being what _chk left for the
\* element at index i - 1; the loop goes on otherwise.
checkElement(elm, i, value, schema, options) ==
  IF IsExc(elm.r) \/ isError(elm.r) THEN elm
  ELSE checkElements(elm.m, i - 1, value, schema, options)

\* The loop of checkArray, for (var i = value.length; i--;), where the
\* parameter i is the loop variable before its decrement.
checkElements(m, i, value, schema, options) ==
  IF i = 0 THEN Ret(m, value)
  ELSE checkElement(_chk(SetKey(m, options, Num(i - 1)), m.h[value.a].es[i],
                         Get(m.h, schema, "value"), options),
                    i, value, schema, options)

checkArray(m, value, schema, options) ==
  IF ~isObject(m.h, schema) THEN Ret(m, value)
  ELSE IF isObject(m.h, Get(m.h, schema, "value"))
  THEN checkElements(m, Len(m.h[value.a].es), value, schema, options)
  ELSE Ret(m, value)

\* The options _chk and its callees read, as they are when a node is entered.
Flags(h, options) ==
  [k \in {"strict", "ignoreDefaults", "ignoreRequired", "doNotCoerce"} |->
     Get(h, options, k)]

\* The record of _chk entering a node.
Visited(m, value, schema, options, parentOptions) ==
  [m EXCEPT !.visits = Append(@,
     [schema |-> schema, value |-> value, options |-> options,
      parent |-> parentOptions, key |-> Get(m.h, options, "key"),
      flags |-> Flags(m.h, options)])]

\* if (options.log) log(arguments)
Logged(m, options, as) ==
  IF Truthy(Get(m.h, options, "log")) THEN log(m, as) ELSE m

\* _chk from `if (tipe.error(value)) return value` on, c being what the
\* check by type left.
checkValidate(c, schema, options, parentOptions) ==
  IF IsExc(c.r) \/ isError(c.r) THEN c
  ELSE IF isFunction(Get(c.m.h, schema, "validate"))
  THEN afterValidator(callValidator(c.m, Get(c.m.h, schema, "validate"), c.r, options),
                      c.r, <<c.r, schema, parentOptions>>)
  ELSE c

\* _chk from the type check on, value being what coerceType returned.
checkType(m, value, schema, options, parentOptions) ==
  IF /\ isDefined(value)
     /\ isString(Get(m.h, schema, "type"))
     /\ ~match(Str(tipe(m.h, value)), Get(m.h, schema, "type"))
  THEN fail(m, Str("badType"), Str(tipe(m.h, value)), <<value, schema, parentOptions>>)
  ELSE checkValidate(
         CASE tipe(m.h, value) = "object" -> checkobject(m, value, schema, options)
           [] tipe(m.h, value) = "array" -> checkArray(m, value, schema, options)
           [] OTHER -> checkScalar(m, value, schema, options),
         schema, options, parentOptions)

\* _chk from the required check on, with its own options.
checkNode(m, value, schema, options, parentOptions) ==
  IF /\ ~Truthy(Get(m.h, options, "ignoreRequired"))
     /\ Truthy(Get(m.h, schema, "required"))
     /\ (isUndefined(value) \/ isNull(value))
  THEN fail(m, Str("missingParam"), Get(m.h, options, "key"),
            <<value, schema, parentOptions>>)
  ELSE checkType(m, coerceType(m.h, value, schema, options), schema, options,
                 parentOptions)

\* _chk once override has left o: the new options and the heap they are in.
entered(o, value, schema, parentOptions) ==
  checkNode(Logged(Visited(o.m, value, schema, o.r, parentOptions), o.r,
                   <<value, schema, parentOptions>>),
            value, schema, o.r, parentOptions)

_chk(m, value, schema, parentOptions) ==
  IF ~isObject(m.h, schema) THEN Ret(m, value)
  ELSE entered(override(m, parentOptions, schema), value, schema, parentOptions)

-----------------------------------------------------------------------------
(* chk: the public entry point                                             *)

\* The fixed default options of chk.
defaultOptions ==
  ObjCell(<<"ignoreDefaults", "ignoreRequired", "doNotCoerce", "strict", "log">>,
          [k \in {"ignoreDefaults", "ignoreRequired", "doNotCoerce", "strict", "log"}
             |-> Bool(FALSE)])

\* return (tipe.error(err)) ? err : null
returned(err) ==
  IF IsExc(err.r) \/ isError(err.r) THEN err ELSE Ret(err.m, Null)

\* chk once override has left o: rootValue and rootSchema are stamped on
\* the options and the value is checked.
configured(o, value, schema) ==
  returned(_chk(WithHeap(o.m, Set(Set(o.m.h, o.r, "rootValue", value),
                                  o.r, "rootSchema", schema)),
                value, schema, o.r))

chk(m, value, schema, userOptions) ==
  IF ~isObject(m.h, schema)
  THEN fail(m, Str("badType"), Str("schema object is required"),
            <<value, schema, userOptions>>)
  ELSE configured(override(WithHeap(m, Alloc(m.h, defaultOptions)),
                           Ref(NewAddr(m.h)), userOptions),
                  value, schema)

-----------------------------------------------------------------------------
(* Literals: the caller's arguments as written in source, and their        *)
(* loading into the heap.                                                  *)

\* A key left out of an object literal.
Absent == [t |-> "absent"]
\* An object literal {k1: v1, ...} (kv: its <<key, value>> pairs in order)
\* and an array literal [e1, ...].
ObjLit(kv) == [t |-> "objlit", kv |-> SelectSeq(kv, LAMBDA p : p[2] # Absent)]
ArrLit(es) == [t |-> "arrlit", es |-> es]

RECURSIVE Load(_, _)
RECURSIVE LoadPairs(_, _, _)
RECURSIVE LoadElems(_, _, _)
\* Evaluating a literal: the heap with the new cells, and the value.
Load(h, lit) ==
  IF lit.t = "objlit"
  THEN LET c == LoadPairs(h, lit.kv, ObjCell(<<>>, EmptyMap))
       IN [h |-> Alloc(c.h, c.r), r |-> Ref(NewAddr(c.h))]
  ELSE IF lit.t = "arrlit"
  THEN LET c == LoadElems(h, lit.es, <<>>)
       IN [h |-> Alloc(c.h, ArrCell(c.r)), r |-> Ref(NewAddr(c.h))]
  ELSE [h |-> h, r |-> lit]

LoadPairs(h, kv, cell) ==
  IF kv = <<>> THEN [h |-> h, r |-> cell]
  ELSE LET c == Load(h, Head(kv)[2])
       IN LoadPairs(c.h, Tail(kv), SetCell(cell, Head(kv)[1], c.r))

LoadElems(h, es, done) ==
  IF es = <<>> THEN [h |-> h, r |-> done]
  ELSE LET c == Load(h, Head(es))
       IN LoadElems(c.h, Tail(es), Append(done, c.r))

\* The literal that would write heap value v: its structure, without
\* the addresses.
RECURSIVE Literal(_, _)
Literal(h, v) ==
  IF ~IsRef(v) THEN v
  ELSE IF h[v.a].t = "object"
  THEN [t |-> "objlit",
        kv |-> [i \in 1..Len(h[v.a].ks) |->
                  <<h[v.a].ks[i], Literal(h, h[v.a].m[h[v.a].ks[i]])>>]]
  ELSE [t |-> "arrlit",
        es |-> [i \in 1..Len(h[v.a].es) |-> Literal(h, h[v.a].es[i])]]


-----------------------------------------------------------------------------
(* The calls the model makes: bounded families of (value, schema, options) *)

\* The longest array literal among the inputs.
MaxElems == 2

Opt(S) == {Absent} \cup S
SeqsUpTo(S, n) == UNION {[1..k -> S] : k \in 0..n}

\* A schema node literal: the meta-keys that are present, then its fields.
Node(type, required, default, value, strict, validate, fields) ==
  ObjLit(<<<<"type", type>>, <<"required", required>>, <<"default", default>>,
           <<"value", value>>, <<"strict", strict>>, <<"validate", validate>>>>
         \o fields)

\* An options literal with one option set, or no options argument at all.
OneOption(k, v) == IF v = Absent THEN Undef ELSE ObjLit(<<<<k, v>>>>)

Call(value, schema, options) == [value |-> value, schema |-> schema, options |-> options]

Behaviours ==
  {"retNull", "retString", "retError", "retCodedError", "isOne",
   "throwError", "throwString", "throwNumber", "throwNull", "throwUndefined"}

ScalarValues ==
  {Undef, Null, Num(0), Num(1), Bool(TRUE), Str("0"), Str("1"), Str("1e2"),
   Str("x"), Str("true"), Str("a")}

\* A scalar at the root against a validator function, authored as
\* schema.value or as schema.validate.
ValidatorCalls ==
  {Call(v,
        Node(type, required, Absent,
             IF slot = "value" THEN Fn(f) ELSE Absent, Absent,
             IF slot = "validate" THEN Fn(f) ELSE Absent, <<>>),
        OneOption("untrusted", untrusted)) :
     v \in ScalarValues, type \in Opt({Str("number")}),
     required \in Opt({Bool(TRUE)}), slot \in {"value", "validate"},
     f \in Behaviours, untrusted \in Opt({Bool(TRUE)})}

\* A scalar at the root against a type and a rule.
ScalarCalls ==
  {Call(v, Node(type, required, Absent, rule, Absent, Absent, <<>>), o) :
     v \in ScalarValues,
     type \in Opt({Str("number"), Str("boolean"), Str("string"), Str("number|string")}),
     required \in Opt({Bool(TRUE)}),
     rule \in Opt({Str("a|b"), Num(1), Bool(TRUE), Null}),
     o \in {Undef, OneOption("doNotCoerce", Bool(TRUE)),
            OneOption("ignoreRequired", Bool(TRUE))}}

\* An object with fields a and b: defaults and required.
FieldOptions ==
  {Undef, OneOption("ignoreDefaults", Bool(TRUE)), OneOption("ignoreRequired", Bool(TRUE)),
   ObjLit(<<<<"ignoreDefaults", Bool(TRUE)>>, <<"ignoreRequired", Bool(TRUE)>>>>),
   OneOption("strict", Bool(TRUE))}

FieldCalls ==
  {Call(ObjLit(<<<<"a", va>>, <<"b", vb>>>>),
        ObjLit(<<<<"a", Node(ta, ra, da, Absent, Absent, Absent, <<>>)>>,
                 <<"b", Node(Absent, rb, db, Absent, Absent, Absent, <<>>)>>>>),
        o) :
     va \in Opt({Null, Num(1), Str("1"), Str("x")}), vb \in Opt({Null, Num(1)}),
     ta \in Opt({Str("number")}), ra \in Opt({Bool(TRUE)}),
     da \in Opt({Num(5), Str("5"), Null}),
     rb \in Opt({Bool(TRUE)}), db \in Opt({Num(5)}),
     o \in FieldOptions}

\* Strict mode: an object with a declared key a and one more key, against
\* a schema in the flat or in the nested authoring style.
StrictSettings == Opt({Bool(TRUE), Bool(FALSE), Str("yes")})
NumberField == Node(Str("number"), Absent, Absent, Absent, Absent, Absent, <<>>)

StrictCalls ==
  {Call(ObjLit(<<<<"a", Num(1)>>, <<x, IF x = "a" THEN Absent ELSE Num(2)>>>>),
        IF nested
        THEN Node(Str("object"), required, Absent, ObjLit(<<<<"a", NumberField>>>>),
                  strict, Absent, <<>>)
        ELSE Node(type, required, Absent, Absent, strict, Absent, <<<<"a", NumberField>>>>),
        OneOption("strict", ostrict)) :
     x \in {"a", "b", "type", "required", "strict"},
     nested \in BOOLEAN, type \in Opt({Str("object")}),
     required \in Opt({Bool(TRUE), Bool(FALSE)}), strict \in StrictSettings,
     ostrict \in Opt({Bool(TRUE), Bool(FALSE), Str("yes"), Null})}


\* Option inheritance: siblings a and b (b an array of objects) under a
\* root, each level with its own strict setting, each object possibly
\* with an undeclared key z.
Extra(present) == IF present THEN Num(2) ELSE Absent

InheritCalls ==
  {Call(ObjLit(<<<<"a", ObjLit(<<<<"x", Num(1)>>, <<"z", Extra(za)>>>>)>>,
                 <<"b", ArrLit(<<ObjLit(<<<<"y", Num(1)>>, <<"z", Extra(zb)>>>>)>>)>>>>),
        Node(Absent, Absent, Absent, Absent, s0, Absent,
             <<<<"a", Node(Absent, Absent, Absent, Absent, s1, Absent,
                           <<<<"x", NumberField>>>>)>>,
               <<"b", Node(Str("array"), Absent, Absent,
                           Node(Absent, Absent, Absent, Absent, s2, Absent,
                                <<<<"y", NumberField>>>>),
                           Absent, Absent, <<>>)>>>>),
        OneOption("strict", ostrict)) :
     za \in BOOLEAN, zb \in BOOLEAN,
     s0 \in StrictSettings, s1 \in StrictSettings, s2 \in StrictSettings,
     ostrict \in Opt({Bool(TRUE), Str("yes")})}

\* The other options, overridden by the caller and by the schema with
\* values of the right and of the wrong type.
FlagSettings == Opt({Bool(TRUE), Str("yes"), Num(1)})

FlagCalls ==
  {Call(ObjLit(<<<<"a", ObjLit(<<<<"x", vx>>>>)>>>>),
        ObjLit(<<<<flag, s0>>,
                 <<"a", ObjLit(<<<<flag, s1>>,
                                 <<"x", Node(Str("number"), Bool(TRUE), Num(5),
                                             Absent, Absent, Absent, <<>>)>>>>)>>>>),
        OneOption(flag, oflag)) :
     flag \in {"ignoreDefaults", "ignoreRequired", "doNotCoerce"},
     vx \in Opt({Null, Str("1")}),
     s0 \in FlagSettings, s1 \in Opt({Bool(FALSE), Str("no")}), oflag \in FlagSettings}

\* Arrays of scalars against an element schema, at the root and in a field.
Elements == {Num(1), Str("1"), Str("x"), Null}

ElementSchemas ==
  {NumberField,
   Node(Str("number"), Bool(TRUE), Absent, Absent, Absent, Absent, <<>>),
   Node(Str("number"), Absent, Absent, Num(1), Absent, Absent, <<>>),
   Node(Absent, Absent, Absent, Fn("isOne"), Absent, Absent, <<>>),
   Node(Str("number"), Absent, Absent, Absent, Absent, Fn("isOne"), <<>>)}

ArrayCalls ==
  {Call(IF field THEN ObjLit(<<<<"list", ArrLit(es)>>>>) ELSE ArrLit(es),
        IF field
        THEN ObjLit(<<<<"list", Node(Str("array"), Absent, Absent, elem,
                                     Absent, Absent, <<>>)>>>>)
        ELSE Node(Str("array"), Absent, Absent, elem, Absent, Absent, <<>>),
        OneOption("doNotCoerce", dnc)) :
     es \in SeqsUpTo(Elements, MaxElems), elem \in ElementSchemas,
     field \in BOOLEAN, dnc \in Opt({Bool(TRUE)})}

\* Arrays of objects.
ObjectElements ==
  {ObjLit(<<<<"n", n>>>>) : n \in Opt({Num(1), Str("1"), Str("x")})}

ObjectArrayCalls ==
  {Call(ArrLit(es),
        Node(Str("array"), Absent, Absent,
             ObjLit(<<<<"n", Node(Str("number"), required, default,
                                  Absent, Absent, Absent, <<>>)>>>>),
             Absent, Absent, <<>>),
        Undef) :
     es \in SeqsUpTo(ObjectElements, MaxElems),
     required \in Opt({Bool(TRUE)}), default \in Opt({Num(7)})}

\* Defaults of every shape, with a schema for what is inside them.
CountField(default) ==
  Node(Str("number"), Absent, default, Absent, Absent, Absent, <<>>)
CountSchema(default) == ObjLit(<<<<"n", CountField(default)>>>>)
CountObject(n) == ObjLit(<<<<"n", n>>>>)

DefaultFields ==
  {Node(Str("number"), Absent, Str("5"), Absent, Absent, Absent, <<>>),
   Node(Absent, Absent, CountObject(Str("1")), Absent, Absent, Absent,
        <<<<"n", CountField(Absent)>>>>),
   Node(Str("object"), Absent, CountObject(Str("1")), CountSchema(Absent),
        Absent, Absent, <<>>),
   Node(Str("object"), Absent, ObjLit(<<>>), CountSchema(Num(7)), Absent, Absent, <<>>),
   Node(Str("object"), Absent,
        ObjLit(<<<<"list", ArrLit(<<CountObject(Str("1"))>>)>>>>),
        ObjLit(<<<<"list", Node(Str("array"), Absent, Absent, CountSchema(Absent),
                                Absent, Absent, <<>>)>>>>),
        Absent, Absent, <<>>),
   Node(Str("array"), Absent, ArrLit(<<Str("1")>>), CountField(Absent),
        Absent, Absent, <<>>),
   Node(Str("array"), Absent, ArrLit(<<CountObject(Str("1"))>>), CountSchema(Absent),
        Absent, Absent, <<>>),
   Node(Str("array"), Absent, ArrLit(<<CountObject(Str("x"))>>), CountSchema(Absent),
        Absent, Absent, <<>>),
   Node(Str("array"), Absent, ArrLit(<<ObjLit(<<>>)>>), CountSchema(Num(7)),
        Absent, Absent, <<>>),
   Node(Str("array"), Absent, ArrLit(<<CountObject(Num(1)), CountObject(Num(1))>>),
        CountSchema(Absent), Absent, Absent, <<>>)}

DefaultCalls ==
  {Call(ObjLit(<<<<"f", vf>>>>), ObjLit(<<<<"f", field>>>>), o) :
     vf \in Opt({Null, ArrLit(<<CountObject(Str("1"))>>)}), field \in DefaultFields,
     o \in {Undef, OneOption("ignoreDefaults", Bool(TRUE)),
            OneOption("doNotCoerce", Bool(TRUE))}}

\* Validators on nodes that have children: an object with fields a and b,
\* and an array, each node with or without a validator.
NodeBehaviours == Opt({Fn("retNull"), Fn("retString"), Fn("throwError")})
NodeOptions ==
  {Undef, OneOption("untrusted", Bool(TRUE)), OneOption("log", Bool(TRUE))}

ObjectValidatorCalls ==
  {Call(ObjLit(<<<<"a", Num(1)>>, <<"b", Num(2)>>>>),
        Node(Absent, Absent, Absent, Absent, Absent, w,
             <<<<"a", Node(Str("number"), Absent, Absent, f, Absent, Absent, <<>>)>>,
               <<"b", Node(Absent, Absent, Absent, Absent, Absent, g, <<>>)>>>>),
        o) :
     w \in NodeBehaviours, f \in NodeBehaviours, g \in NodeBehaviours, o \in NodeOptions}

ArrayValidatorCalls ==
  {Call(ArrLit(es),
        Node(Str("array"), Absent, Absent,
             Node(Absent, Absent, Absent, f, Absent, g, <<>>),
             Absent, w, <<>>),
        o) :
     es \in SeqsUpTo({Num(1), Num(2)}, MaxElems),
     w \in NodeBehaviours, f \in NodeBehaviours, g \in Opt({Fn("retNull")}),
     o \in NodeOptions}

Calls ==
  ValidatorCalls \cup ScalarCalls \cup FieldCalls \cup StrictCalls \cup InheritCalls
  \cup FlagCalls \cup ArrayCalls \cup ObjectArrayCalls \cup DefaultCalls
  \cup ObjectValidatorCalls \cup ArrayValidatorCalls

-----------------------------------------------------------------------------
(* The state machine: a caller makes a call of chk, and may then make a    *)
(* second one.                                                             *)

None == [t |-> "none"]
NoMachine == Machine(<<>>, <<>>, <<>>)

\* The caller's arguments evaluated: schema, value and options in a heap.
Loaded(call) ==
  LET s == Load(<<>>, call.schema)
      v == Load(s.h, call.value)
      o == Load(v.h, call.options)
  IN [h |-> o.h, value |-> v.r, schema |-> s.r, options |-> o.r]

Init ==
  \E call \in Calls :
    LET l == Loaded(call)
    IN /\ pc = "ready"
       /\ args = [value |-> l.value, schema |-> l.schema, options |-> l.options]
       /\ before = call
       /\ mach = Machine(l.h, <<>>, <<>>)
       /\ result = None
       /\ mach2 = NoMachine
       /\ result2 = None

\* err = chk(value, schema, options)
First(c) == mach' = c.m /\ result' = c.r
Second(c) == mach2' = c.m /\ result2' = c.r

Check ==
  /\ pc = "ready"
  /\ First(chk(mach, args.value, args.schema, args.options))
  /\ pc' = "checked"
  /\ UNCHANGED <<args, before, mach2, result2>>

\* The caller's options with doNotCoerce: true added.
WithDoNotCoerce(h, options) ==
  Alloc(h, SetCell(IF isObject(h, options) THEN h[options.a] ELSE ObjCell(<<>>, EmptyMap),
                   "doNotCoerce", Bool(TRUE)))

\* After a call that returned null: chk on the same value and schema again,
\* with doNotCoerce: true.
Recheck ==
  /\ pc = "checked"
  /\ result = Null
  /\ Second(chk(Machine(WithDoNotCoerce(mach.h, args.options), <<>>, <<>>),
                args.value, args.schema, Ref(NewAddr(mach.h))))
  /\ pc' = "rechecked"
  /\ UNCHANGED <<args, before, mach, result>>

\* A schema literal with its key `value` renamed to `validate`.
AsValidate(schema) ==
  [schema EXCEPT !.kv = [i \in 1..Len(schema.kv) |->
     IF schema.kv[i][1] = "value" THEN <<"validate", schema.kv[i][2]>>
     ELSE schema.kv[i]]]

\* Whether the schema literal authors a validator function as schema.value
\* and has no schema.validate.
HasValueValidator(schema) ==
  /\ \E i \in 1..Len(schema.kv) :
       schema.kv[i][1] = "value" /\ schema.kv[i][2].t = "function"
  /\ \A i \in 1..Len(schema.kv) : schema.kv[i][1] # "validate"

\* chk on freshly loaded arguments.
Called(l) == chk(Machine(l.h, <<>>, <<>>), l.value, l.schema, l.options)

\* After a call with a validator authored as schema.value: the same call
\* as first written, with the validator authored as schema.validate.
CheckAsValidate ==
  /\ pc = "checked"
  /\ HasValueValidator(before.schema)
  /\ Second(Called(Loaded([before EXCEPT !.schema = AsValidate(before.schema)])))
  /\ pc' = "twinned"
  /\ UNCHANGED <<args, before, mach, result>>

Next == Check \/ Recheck \/ CheckAsValidate

Spec == Init /\ [][Next]_vars

-----------------------------------------------------------------------------
(* Reading the literals of a call, and the outcome of a call               *)

LitKeys(lit) ==
  IF lit.t = "objlit" THEN {lit.kv[i][1] : i \in 1..Len(lit.kv)} ELSE {}

\* lit.k as written, Absent when the key is not written (or lit is no
\* object literal).
LitGet(lit, k) ==
  IF lit.t = "objlit" /\ (\E i \in 1..Len(lit.kv) : lit.kv[i][1] = k)
  THEN lit.kv[CHOOSE i \in 1..Len(lit.kv) : lit.kv[i][1] = k][2]
  ELSE Absent

\* Truthiness of a literal: object and array literals are truthy.
TruthyLit(v) == v.t # "absent" /\ (v.t \in {"objlit", "arrlit"} \/ Truthy(v))

\* Whether a function is written anywhere inside a literal.
RECURSIVE HasFunction(_)
HasFunction(lit) ==
  CASE lit.t = "function" -> TRUE
    [] lit.t = "objlit" -> \E i \in 1..Len(lit.kv) : HasFunction(lit.kv[i][2])
    [] lit.t = "arrlit" -> \E i \in 1..Len(lit.es) : HasFunction(lit.es[i])
    [] OTHER -> FALSE

\* The first call has been made / has returned to its caller.
Called1 == pc # "ready"
Returned1 == Called1 /\ ~IsExc(result)

\* The call returned an error with this code.
FailedWith(r, code) == isError(r) /\ r.code = Str(code)

\* The error's message is codeMap[code] + ': ' + key.
Names(r, key) ==
  /\ isError(r)
  /\ "cat" \in DOMAIN r.message
  /\ Len(r.message.cat) = 3
  /\ r.message.cat[3] = Str(key)

\* An option of the root node, as in force when _chk entered it.
RootFlag(k) == mach.visits # <<>> /\ Truthy(mach.visits[1].flags[k])

-----------------------------------------------------------------------------
(* C1                                                                      *)

\* C1: after check returns, with null or with an error, the schema tree is
\* structurally what the caller wrote, every nested default included.
SchemaNeverMutated ==
  Returned1 => Literal(mach.h, args.schema) = before.schema

-----------------------------------------------------------------------------
(* C2                                                                      *)

\* The validator invocation threw.
Threw(call) == ValidatorOutcome(call.f, call.value).thrown

\* C2: when a validator throws, whatever it throws, check lets no exception
\* out and returns an error whose code is badSchema.
ThrowingValidatorIsBadSchema ==
  (Called1 /\ \E i \in DOMAIN mach.calls : Threw(mach.calls[i]))
    => FailedWith(result, "badSchema")

-----------------------------------------------------------------------------
(* C3                                                                      *)

\* C3: when check returned null for a schema without validator functions,
\* check on the same value again, with doNotCoerce: true added to the
\* options, returns null again.
RecheckReturnsNull ==
  (pc = "rechecked" /\ ~HasFunction(before.schema)) => result2 = Null

-----------------------------------------------------------------------------
(* C4                                                                      *)

\* The call checks an array literal against a schema with an element schema.
ArrayCall ==
  /\ before.value.t = "arrlit"
  /\ before.schema.t = "objlit"
  /\ LitGet(before.schema, "value").t = "objlit"

\* Element k of the array (counted from 1) is invalid: check on the element
\* alone, against the element schema, does not return null.
Invalid(k) ==
  Called(Loaded(Call(before.value.es[k], LitGet(before.schema, "value"),
                     before.options))).r # Null

\* The indices (counted from 0) of the elements _chk entered, in the order
\* it entered them.
RECURSIVE ElementKeys(_)
ElementKeys(visits) ==
  IF visits = <<>> THEN <<>>
  ELSE IF Head(visits).parent = mach.visits[1].options /\ Head(visits).key.t = "number"
  THEN <<Head(visits).key.n>> \o ElementKeys(Tail(visits))
  ELSE ElementKeys(Tail(visits))

LowestInvalid ==
  CHOOSE k \in 1..Len(before.value.es) :
    Invalid(k) /\ \A j \in 1..(k - 1) : ~Invalid(j)

\* C4: the elements of an array are evaluated in ascending index order,
\* and when some are invalid the error returned is the one of the
\* lowest-indexed invalid element, after which no element is evaluated.
ElementsAscendingFirstFailure ==
  (Returned1 /\ ArrayCall) =>
    /\ \A i, j \in 1..Len(ElementKeys(mach.visits)) :
         i < j => ElementKeys(mach.visits)[i] < ElementKeys(mach.visits)[j]
    /\ (\E k \in 1..Len(before.value.es) : Invalid(k)) =>
         /\ isError(result)
         /\ ElementKeys(mach.visits) # <<>>
         /\ ElementKeys(mach.visits)[Len(ElementKeys(mach.visits))] = LowestInvalid - 1

-----------------------------------------------------------------------------
(* C5                                                                      *)

MetaKeys == {"type", "required", "default", "value", "strict", "validate"}

\* The keys of the field-schema map as the specification defines it: the
\* keys of schema.value in the nested style, and else the schema node's
\* own keys without the reserved meta-keys.
FieldMapKeys(schema) ==
  IF LitGet(schema, "type") = Str("object") /\ LitGet(schema, "value").t = "objlit"
  THEN LitKeys(LitGet(schema, "value"))
  ELSE LitKeys(schema) \ MetaKeys

\* The call checks an object literal against a schema.
ObjectCall == before.value.t = "objlit" /\ before.schema.t = "objlit"

Undeclared == LitKeys(before.value) \ FieldMapKeys(before.schema)

\* C5: in strict mode a key of the value with no entry in the field-schema
\* map (meta-keys are no entries) makes check fail with badParam naming such
\* a key, the value unmodified; without strict mode the key is left as is.
StrictRejectsUndeclared ==
  (Returned1 /\ ObjectCall /\ Undeclared # {}) =>
    IF RootFlag("strict")
    THEN /\ FailedWith(result, "badParam")
         /\ \E k \in Undeclared : Names(result, k)
         /\ Literal(mach.h, args.value) = before.value
    ELSE \A k \in Undeclared :
           LitGet(Literal(mach.h, args.value), k) = LitGet(before.value, k)

-----------------------------------------------------------------------------
(* C6                                                                      *)

\* The call checks an object literal against a flat schema that has
\* nothing but field schemas, one for every key of the value.
FlatObjectCall ==
  /\ ObjectCall
  /\ \A i \in 1..Len(before.schema.kv) : before.schema.kv[i][2].t = "objlit"
  /\ LitKeys(before.value) \subseteq LitKeys(before.schema)

FieldLit(k) == LitGet(before.schema, k)
HasDefault(f) == LitGet(f, "default").t \notin {"absent", "undefined"}
NullDefault(f) == LitGet(f, "default").t = "null"
ScalarDefault(f) == LitGet(f, "default").t \notin {"absent", "objlit", "arrlit"}
IsRequired(f) == TruthyLit(LitGet(f, "required"))
AbsentKey(k) == k \notin LitKeys(before.value)
NullKey(k) == LitGet(before.value, k).t = "null"

\* The defaulting step fills field k.
Defaulted(k) ==
  AbsentKey(k) /\ HasDefault(FieldLit(k)) /\ ~RootFlag("ignoreDefaults")

\* The required sweep, run after defaulting, finds field k missing.
Missing(k) ==
  /\ IsRequired(FieldLit(k))
  /\ ~RootFlag("ignoreRequired")
  /\ \/ NullKey(k)
     \/ AbsentKey(k) /\ ~Defaulted(k)
     \/ Defaulted(k) /\ NullDefault(FieldLit(k))

\* The first field, in the order the schema declares them, that the
\* required sweep finds missing.
FirstMissing ==
  before.schema.kv[CHOOSE i \in 1..Len(before.schema.kv) :
                     /\ Missing(before.schema.kv[i][1])
                     /\ \A j \in 1..(i - 1) : ~Missing(before.schema.kv[j][1])][1]

MissingParamNames(k) == FailedWith(result, "missingParam") /\ Names(result, k)

\* The defaulting step set field k: the key is in the value, and holds the
\* default itself where the field schema says nothing more about it.
WasDefaulted(k) ==
  /\ k \in DOMAIN mach.h[args.value.a].m
  /\ (ScalarDefault(FieldLit(k)) /\ LitKeys(FieldLit(k)) \subseteq {"default", "required"})
       => Get(mach.h, args.value, k) = LitGet(FieldLit(k), "default")

\* A field written as null is not given its default: it stays null, or
\* holds the error its own check returned.
NullKept(k) ==
  Get(mach.h, args.value, k) = Null \/ isError(Get(mach.h, args.value, k))

\* C6, as amended: defaulting runs before the required sweep.  An absent
\* field with a default is set to it, and no missingParam is raised for it
\* unless the default is null; a field written as null is not defaulted;
\* and when the sweep finds fields missing, check fails with missingParam
\* naming the first of them in the order of the schema.
DefaultsBeforeRequired ==
  (Returned1 /\ FlatObjectCall) =>
    /\ \A k \in LitKeys(before.schema) :
         /\ Defaulted(k) =>
              /\ WasDefaulted(k)
              /\ ~NullDefault(FieldLit(k)) => ~MissingParamNames(k)
         /\ NullKey(k) => NullKept(k)
    /\ (\E k \in LitKeys(before.schema) : Missing(k)) => MissingParamNames(FirstMissing)

\* A required field is absent and gets its default, and another required
\* field, without a default, is reported missing.
DefaultedAndMissing ==
  /\ Returned1 /\ FlatObjectCall
  /\ \E k1, k2 \in LitKeys(before.schema) :
       /\ Defaulted(k1) /\ IsRequired(FieldLit(k1)) /\ ~NullDefault(FieldLit(k1))
       /\ WasDefaulted(k1)
       /\ AbsentKey(k2) /\ ~HasDefault(FieldLit(k2)) /\ Missing(k2)
       /\ MissingParamNames(k2)

\* C6, as stated: every absent field with a default is set to it and
\* raises no missingParam; every absent required field without one, and
\* every required field written as null, makes check fail with
\* missingParam naming that key.
DefaultsBeforeRequiredEveryField ==
  (Returned1 /\ FlatObjectCall) =>
    \A k \in LitKeys(before.schema) :
      /\ Defaulted(k) => WasDefaulted(k) /\ ~MissingParamNames(k)
      /\ (AbsentKey(k) /\ ~Defaulted(k) /\ IsRequired(FieldLit(k))
            /\ ~RootFlag("ignoreRequired")) => MissingParamNames(k)
      /\ NullKey(k) =>
           /\ NullKept(k)
           /\ (IsRequired(FieldLit(k)) /\ ~RootFlag("ignoreRequired"))
                => MissingParamNames(k)

-----------------------------------------------------------------------------
(* C7                                                                      *)

Untrusted == TruthyLit(LitGet(before.options, "untrusted"))

\* _chk entered a node whose schema carries a function validator.
ReachedValidator ==
  \E i \in DOMAIN mach.visits :
    \/ isFunction(Get(mach.h, mach.visits[i].schema, "value"))
    \/ isFunction(Get(mach.h, mach.visits[i].schema, "validate"))

\* C7: with options.untrusted = true no function validator is invoked,
\* and reaching a node that carries one makes check fail with badSchema.
UntrustedDisablesValidators ==
  (Called1 /\ Untrusted) =>
    /\ mach.calls = <<>>
    /\ ReachedValidator => FailedWith(result, "badSchema")

-----------------------------------------------------------------------------
(* C8                                                                      *)

Codes == {"missingParam", "badParam", "badType", "badValue", "badSchema"}

\* C8: check returns null or one error, and the error carries an info
\* object and one of the five codes.
NullOrCodedError ==
  Called1 =>
    \/ result = Null
    \/ /\ isError(result)
       /\ result.hasInfo
       /\ \E c \in Codes : result.code = Str(c)

-----------------------------------------------------------------------------
(* C9                                                                      *)

FlagNames == {"strict", "ignoreDefaults", "ignoreRequired", "doNotCoerce"}

\* The node from which node i was reached: the visit whose options record
\* node i was handed as parentOptions; 0 for the root.
ParentVisit(i) ==
  IF \E j \in DOMAIN mach.visits : mach.visits[j].options = mach.visits[i].parent
  THEN CHOOSE j \in DOMAIN mach.visits : mach.visits[j].options = mach.visits[i].parent
  ELSE 0

\* The caller's option k if it is a boolean, the default false if not.
CallerFlag(k) ==
  IF Get(mach.h, args.options, k).t = "boolean"
  THEN Get(mach.h, args.options, k)
  ELSE Bool(FALSE)

\* The nearest boolean-typed k on the schema path from the root to node i,
\* and the caller's option if there is none.
RECURSIVE Nearest(_, _)
Nearest(i, k) ==
  IF Get(mach.h, mach.visits[i].schema, k).t = "boolean"
  THEN Get(mach.h, mach.visits[i].schema, k)
  ELSE IF ParentVisit(i) = 0 THEN CallerFlag(k)
  ELSE Nearest(ParentVisit(i), k)

\* C9: at every node the traversal reaches, each of strict, ignoreDefaults,
\* ignoreRequired and doNotCoerce is the nearest boolean-typed setting on
\* the schema path from the root, or the caller's boolean option (default
\* false); and every node works on an options record of its own, whose
\* settings no other node changes.
OptionsInherited ==
  Called1 =>
    \A i \in DOMAIN mach.visits :
      /\ \A k \in FlagNames : mach.visits[i].flags[k] = Nearest(i, k)
      /\ Flags(mach.h, mach.visits[i].options) = mach.visits[i].flags
      /\ mach.visits[i].options # mach.visits[i].parent
      /\ \A j \in DOMAIN mach.visits :
           j # i => mach.visits[j].options # mach.visits[i].options

\* Two siblings are checked under different strict settings, and a node
\* whose schema says strict: "yes" is checked under the strict: true of
\* its parent.
SiblingsDifferAndWrongTypeIgnored ==
  /\ Called1
  /\ \E i, j \in DOMAIN mach.visits :
       /\ i # j
       /\ mach.visits[i].parent = mach.visits[j].parent
       /\ mach.visits[i].flags.strict # mach.visits[j].flags.strict
  /\ \E n \in DOMAIN mach.visits :
       /\ Get(mach.h, mach.visits[n].schema, "strict") = Str("yes")
       /\ ParentVisit(n) # 0
       /\ mach.visits[n].flags.strict = Bool(TRUE)

-----------------------------------------------------------------------------
(* C10                                                                     *)

\* What the caller sees of a call: null, the code of the error, or the
\* exception.
Outcome(r) == IF isError(r) THEN r.code ELSE r

\* The validator invocations of a call: which function, on which value,
\* with which this and key.
Invocations(calls) ==
  [i \in 1..Len(calls) |->
     [f |-> calls[i].f, value |-> calls[i].value,
      this |-> calls[i].this, key |-> calls[i].key]]

\* C10: for a scalar value, a validator authored as schema.value and the
\* same validator authored as schema.validate are invoked alike and the
\* two calls of check have the same outcome.
ValueAndValidateAlike ==
  pc = "twinned" =>
    /\ Invocations(mach.calls) = Invocations(mach2.calls)
    /\ Outcome(result) = Outcome(result2)

-----------------------------------------------------------------------------
(* C11                                                                     *)

\* The node whose validator invocation c is: the visit that works on the
\* options record the validator was handed.
NodeOf(c) == CHOOSE n \in DOMAIN mach.visits : mach.visits[n].options = c.options

\* C11: whenever a validator attached to a node is invoked, the key it
\* receives is the traversal key of that node itself, as it was when the
\* node was entered, also after the node's children were checked, and the
\* rootValue it receives is the original top-level value.
ValidatorSeesOwnKey ==
  Called1 =>
    \A i \in DOMAIN mach.calls :
      /\ \E n \in DOMAIN mach.visits : mach.visits[n].options = mach.calls[i].options
      /\ mach.calls[i].key = mach.visits[NodeOf(mach.calls[i])].key
      /\ mach.calls[i].this = args.value

=============================================================================
